---- MODULE Spec2Model ----
(***************************************************************************)
(* Model of vector_similarity/run_vector_similarity.py: the grouping of    *)
(* idiom examples, word-vector extraction, pairwise distance averages,     *)
(* the per-group metric calculator and the two summarizers.                *)
(*                                                                         *)
(* Conventions.                                                            *)
(*  - Python lists are sequences; Python's 0-based index i is i+1 here.    *)
(*  - An embedding vector is 1-dimensional and non-zero, i.e. a non-zero   *)
(*    integer, so that scipy's cosine and euclidean are exact:             *)
(*    cosine(u,v) = 1 - u*v/(|u|*|v|) and euclidean(u,v) = |u-v|.          *)
(*  - A float is an exact rational [k |-> "num", n, d] in lowest terms.    *)
(*  - A raised exception is a record [k |-> <exception class name>].       *)
(*  - An optional argument is <<>> for None and <<x>> for a given x.       *)
(***************************************************************************)
EXTENDS Integers, Sequences, FiniteSets, TLC

\* ------------------------------------------------------------------ bounds
MaxData == 6
MaxPairs == 4
MaxResults == 3
MaxEmb == 3

\* ------------------------------------------------------------- arithmetic
Abs(x) == IF x < 0 THEN -x ELSE x

RECURSIVE GCD(_, _)
GCD(a, b) == IF b = 0 THEN a ELSE GCD(b, a % b)

Num(n, d) ==
    LET g == GCD(Abs(n), Abs(d))
        s == IF d < 0 THEN -1 ELSE 1
    IN  [k |-> "num", n |-> (s * n) \div g, d |-> (s * d) \div g]

IsNum(v) == v.k = "num"
RAdd(a, b) == Num(a.n * b.d + b.n * a.d, a.d * b.d)
RSub(a, b) == Num(a.n * b.d - b.n * a.d, a.d * b.d)

RECURSIVE RSum(_)
RSum(xs) == IF xs = <<>> THEN Num(0, 1) ELSE RAdd(Head(xs), RSum(Tail(xs)))

StatisticsError == [k |-> "StatisticsError"]
ValueError == [k |-> "ValueError"]
IndexError == [k |-> "IndexError"]
NoError == [k |-> "none"]
IsError(v) == v.k \in {"StatisticsError", "ValueError", "IndexError"}

\* Variant: the mean as sum / max(len, 1), which is 0 on no data.
mean_or_zero(xs) ==
    LET s == RSum(xs) IN Num(s.n, s.d * (IF Len(xs) = 0 THEN 1 ELSE Len(xs)))

\* statistics.mean: the exact mean; raises StatisticsError on no data.
mean(xs) ==
    IF Len(xs) = 0 THEN StatisticsError
    ELSE LET s == RSum(xs) IN Num(s.n, s.d * Len(xs))

\* scipy.spatial.distance.cosine / euclidean on 1-dimensional vectors.
cosine(u, v) == Num(1 - ((u * v) \div (Abs(u) * Abs(v))), 1)
euclidean(u, v) == Num(Abs(u - v), 1)
measure(measurement, u, v) ==
    IF measurement = "cosine" THEN cosine(u, v) ELSE euclidean(u, v)

\* ---------------------------------------------------------------- dataset
\* One example of the word dataset: the fields the program reads, with the
\* decoded tokens of its encoded input and the embedding of each token.
Ex(p, w, f, toks, embs) ==
    [pair_id |-> p, word |-> w, figurative |-> f, decoded_tokens |-> toks,
     embedding_outputs |-> embs]

Templates ==
    << Ex(1, <<"spill">>, TRUE, <<"he", "spill">>, <<2, 1>>),
       Ex(1, <<"spill">>, TRUE, <<"spill", "and", "spill">>, <<-1, 2, 1>>),
       Ex(1, <<"spill">>, FALSE, <<"spill">>, <<1>>),
       Ex(1, <<"spill">>, FALSE, <<"we", "spill">>, <<1, 2>>),
       Ex(1, <<"spill">>, FALSE, <<"spi", "##ll">>, <<1, 1>>),
       Ex(1, <<"reveal">>, FALSE, <<"reveal">>, <<-1>>),
       Ex(1, <<"reveal">>, TRUE, <<"reveal", "it">>, <<2, 1>>),
       Ex(2, <<"kick">>, TRUE, <<"kick">>, <<-2>>),
       Ex(799, <<"lamp">>, FALSE, <<"lamp">>, <<-1>>),
       Ex(999, <<"door">>, TRUE, <<"a", "door">>, <<1, -2>>) >>

\* Example lists of length n whose templates appear in non-decreasing order.
RECURSIVE SortedIdx(_)
SortedIdx(n) ==
    IF n = 0 THEN {<<>>}
    ELSE {Append(st[1], st[2]) :
            st \in {x \in SortedIdx(n - 1) \X (1..Len(Templates)) :
                      x[1] = <<>> \/ x[1][Len(x[1])] <= x[2]}}

Datasets ==
    UNION {{[i \in 1..n |-> Templates[s[i]]] : s \in SortedIdx(n)} : n \in 0..MaxData}

\* --------------------------------------------------------------- grouping
\* [i for i, x in enumerate(xs) if test(x)], given test(x) for each position:
\* the positions from i on, ascending, whose test is true.
RECURSIVE FilterIdx(_, _)
FilterIdx(tests, i) ==
    IF i > Len(tests) THEN <<>>
    ELSE (IF tests[i] THEN <<i>> ELSE <<>>) \o FilterIdx(tests, i + 1)

\* set(map(lambda x: x[1].pair_id, idioms))
IdiomPairIds(dataset) ==
    {dataset[i].pair_id : i \in {j \in 1..Len(dataset) : dataset[j].figurative}}

\* Variant: the group taken over all examples, not over `idioms`.
IdiomGroup_any_usage(dataset, idiom_pair_id) ==
    FilterIdx([i \in 1..Len(dataset) |-> dataset[i].pair_id = idiom_pair_id], 1)

\* Variant: the group without the pair_id test of line 334.
IdiomGroup_all_figurative(dataset, idiom_pair_id) ==
    FilterIdx([i \in 1..Len(dataset) |-> dataset[i].figurative], 1)

\* [idiom[0] for idiom in idioms if idiom[1].pair_id == idiom_pair_id]
IdiomGroup(dataset, idiom_pair_id) ==
    FilterIdx([i \in 1..Len(dataset) |-> dataset[i].figurative /\ dataset[i].pair_id = idiom_pair_id], 1)

\* All iteration orders of a finite set, as sequences without repetition.
Orders(S) ==
    {o \in [1..Cardinality(S) -> S] : \A i, j \in 1..Cardinality(S) : o[i] = o[j] => i = j}

\* get_idiom_sentences, for one iteration order of the set `values`.
get_idiom_sentences(dataset, order) ==
    [g \in 1..Len(order) |-> IdiomGroup(dataset, order[g])]

\* ------------------------------------------------------- vector extraction
\* list.index: the first position holding x, 0 when x is absent (ValueError).
RECURSIVE IndexFrom(_, _, _)
IndexFrom(xs, x, i) ==
    IF i > Len(xs) THEN 0
    ELSE IF xs[i] = x THEN i
    ELSE IndexFrom(xs, x, i + 1)

index(xs, x) == IndexFrom(xs, x, 1)

\* get_word_embedding: [k |-> "vec", v |-> the embedding] or ValueError.
get_word_embedding(data, dataset_index) ==
    LET ex == data[dataset_index]
        word_index == index(ex.decoded_tokens, ex.word[1])
    IN  IF word_index = 0 THEN ValueError
        ELSE [k |-> "vec", v |-> ex.embedding_outputs[word_index]]

\* [get_word_embedding(..., i) for i in idxs]: the list, or the first error.
RECURSIVE FirstError(_)
FirstError(rs) ==
    IF rs = <<>> THEN NoError
    ELSE IF IsError(Head(rs)) THEN Head(rs)
    ELSE FirstError(Tail(rs))

WordEmbeddings(data, idxs) ==
    [i \in 1..Len(idxs) |-> get_word_embedding(data, idxs[i])]

Vecs(rs) == [i \in 1..Len(rs) |-> rs[i].v]

\* ------------------------------------------------------ distance primitives
\* itertools.product(embeddings_1, embeddings_2)
product(e1, e2) ==
    [i \in 1..(Len(e1) * Len(e2)) |->
        <<e1[((i - 1) \div Len(e2)) + 1], e2[((i - 1) % Len(e2)) + 1]>>]

\* itertools.combinations(embeddings_1, 2)
RECURSIVE CombinationsFrom(_, _)
CombinationsFrom(e, i) ==
    IF i >= Len(e) THEN <<>>
    ELSE [j \in 1..(Len(e) - i) |-> <<e[i], e[i + j]>>] \o CombinationsFrom(e, i + 1)

combinations(e) == CombinationsFrom(e, 1)

None == <<>>
Some(x) == <<x>>

\* `if embeddings_2:` is true for a given, non-empty list only.
Truthy(embeddings_2) == embeddings_2 # None /\ Len(embeddings_2[1]) > 0

embedding_pairs(embeddings_1, embeddings_2) ==
    IF Truthy(embeddings_2) THEN product(embeddings_1, embeddings_2[1])
    ELSE combinations(embeddings_1)

distances(measurement, inverse, pairs) ==
    [i \in 1..Len(pairs) |->
        IF inverse THEN RSub(Num(1, 1), measure(measurement, pairs[i][1], pairs[i][2]))
        ELSE measure(measurement, pairs[i][1], pairs[i][2])]

calculate_dist_averages(measurement, inverse, embeddings_1, embeddings_2) ==
    mean(distances(measurement, inverse, embedding_pairs(embeddings_1, embeddings_2)))

\* -------------------------------------------------------- metric calculator
\* A dict under construction: the keys assigned so far, in order, and their
\* values. An assignment whose right-hand side raises ends the call.
Dict(keys, vals) ==
    IF IsError(FirstError(vals)) THEN FirstError(vals)
    ELSE [k |-> "dict", d |-> [key \in {keys[i] : i \in 1..Len(keys)} |->
                                 vals[CHOOSE i \in 1..Len(keys) : keys[i] = key]]]

CategoryKeys ==
    <<"fig_to_literal", "literal_to_literal", "fig_to_fig", "fig_to_paraphrase",
      "literal_to_paraphrase">>

\* Variant: `if random_embeddings is not None:` in place of `if random_embeddings:`.
word_metrics_random_not_none(measurement, inverse, idiom_word_embeddings, literal_usage_embeddings, paraphrase_embeddings, random_embeddings) ==
    LET six ==
          << calculate_dist_averages(measurement, inverse, idiom_word_embeddings,
                                     Some(literal_usage_embeddings)),
             calculate_dist_averages(measurement, inverse, literal_usage_embeddings, None),
             calculate_dist_averages(measurement, inverse, idiom_word_embeddings, None),
             calculate_dist_averages(measurement, inverse, idiom_word_embeddings,
                                     Some(paraphrase_embeddings)),
             calculate_dist_averages(measurement, inverse, literal_usage_embeddings,
                                     Some(paraphrase_embeddings)),
             calculate_dist_averages(measurement, inverse, idiom_word_embeddings,
                                     random_embeddings) >>
    IN  IF random_embeddings # None
        THEN Dict(<<"fig_to_literal", "literal_to_literal", "fig_to_fig",
                    "fig_to_paraphrase", "literal_to_paraphrase", "fig_to_random">>, six)
        ELSE Dict(<<"fig_to_literal", "literal_to_literal", "fig_to_fig",
                    "fig_to_paraphrase", "literal_to_paraphrase">>, SubSeq(six, 1, 5))

\* The body shared by calculate_word_cosine_sim_metrics and
\* calculate_word_euclidean_dists, which differ in (measurement, inverse).
word_metrics(measurement, inverse, idiom_word_embeddings, literal_usage_embeddings, paraphrase_embeddings, random_embeddings) ==
    LET five ==
          << calculate_dist_averages(measurement, inverse, idiom_word_embeddings,
                                     Some(literal_usage_embeddings)),
             calculate_dist_averages(measurement, inverse, literal_usage_embeddings, None),
             calculate_dist_averages(measurement, inverse, idiom_word_embeddings, None),
             calculate_dist_averages(measurement, inverse, idiom_word_embeddings,
                                     Some(paraphrase_embeddings)),
             calculate_dist_averages(measurement, inverse, literal_usage_embeddings,
                                     Some(paraphrase_embeddings)) >>
    IN  IF Truthy(random_embeddings)
        THEN Dict(Append(CategoryKeys, "fig_to_random"),
                  Append(five, calculate_dist_averages(measurement, inverse,
                                   idiom_word_embeddings, random_embeddings)))
        ELSE Dict(CategoryKeys, five)

calculate_word_cosine_sim_metrics(idiom_word_embeddings, literal_usage_embeddings, paraphrase_embeddings, random_embeddings) ==
    word_metrics("cosine", TRUE, idiom_word_embeddings, literal_usage_embeddings,
                 paraphrase_embeddings, random_embeddings)

calculate_word_euclidean_dists(idiom_word_embeddings, literal_usage_embeddings, paraphrase_embeddings, random_embeddings) ==
    word_metrics("euclidean", FALSE, idiom_word_embeddings, literal_usage_embeddings,
                 paraphrase_embeddings, random_embeddings)

SentinelIds == {999, 899, 799}

literal_usage_sents(data, pair_id, idiom_word) ==
    FilterIdx([i \in 1..Len(data) |-> data[i].pair_id = pair_id /\ data[i].word = idiom_word /\ ~data[i].figurative], 1)

\* A variant that takes only non-figurative examples as paraphrases.
paraphrase_sents_not_figurative(data, pair_id, idiom_word) ==
    FilterIdx([i \in 1..Len(data) |-> data[i].pair_id = pair_id /\ ~(data[i].word = idiom_word) /\ ~data[i].figurative], 1)

paraphrase_sents(data, pair_id, idiom_word) ==
    FilterIdx([i \in 1..Len(data) |-> data[i].pair_id = pair_id /\ ~(data[i].word = idiom_word)], 1)

\* `if not random_indexes:` redraws for None and for an empty list.
random_indexes_used(data, random_indexes, random_id) ==
    IF ~Truthy(random_indexes)
    THEN FilterIdx([i \in 1..Len(data) |-> data[i].pair_id = random_id], 1)
    ELSE random_indexes[1]

\* data[paraphrase_sents[0]].word
paraphrase_word(data, para_idx) ==
    IF para_idx = <<>> THEN IndexError ELSE [k |-> "word", w |-> data[para_idx[1]].word]

\* calculate_word_similarity_metrics for one group; random_id is the outcome
\* of random.choice, used only when the call draws. The record holds the
\* call's index lists and `out`: the returned dict or the exception raised,
\* the first one in the order the statements are evaluated.
calculate_word_similarity_metrics(idiom_sent_index_group, data, random_indexes, random_id) ==
    LET idiom_r == WordEmbeddings(data, idiom_sent_index_group)
        pair_id == data[idiom_sent_index_group[1]].pair_id
        idiom_word == data[idiom_sent_index_group[1]].word
        lit_idx == literal_usage_sents(data, pair_id, idiom_word)
        para_idx == paraphrase_sents(data, pair_id, idiom_word)
        lit_r == WordEmbeddings(data, lit_idx)
        para_r == WordEmbeddings(data, para_idx)
        early == FirstError(idiom_r \o lit_r \o para_r)
        rand_idx == random_indexes_used(data, random_indexes, random_id)
        rand_r == WordEmbeddings(data, rand_idx)
        pword == paraphrase_word(data, para_idx)
        cos == calculate_word_cosine_sim_metrics(Vecs(idiom_r), Vecs(lit_r), Vecs(para_r),
                                                 Some(Vecs(rand_r)))
        euc == calculate_word_euclidean_dists(Vecs(idiom_r), Vecs(lit_r), Vecs(para_r),
                                              Some(Vecs(rand_r)))
        out == IF IsError(early) THEN early
               ELSE IF IsError(FirstError(rand_r)) THEN FirstError(rand_r)
               ELSE IF IsError(pword) THEN pword
               ELSE IF IsError(cos) THEN cos
               ELSE IF IsError(euc) THEN euc
               ELSE [k |-> "dict", pair_id |-> pair_id, word |-> idiom_word,
                     paraphrase_word |-> pword.w, cosine_similarities |-> cos.d,
                     euclidean_distances |-> euc.d]
    IN  [group |-> idiom_sent_index_group, pair_id |-> pair_id, idiom_word |-> idiom_word,
         literal_usage_sents |-> lit_idx, paraphrase_sents |-> para_idx,
         drew |-> ~IsError(early) /\ ~Truthy(random_indexes),
         random_id |-> IF ~IsError(early) /\ ~Truthy(random_indexes) THEN random_id ELSE 0,
         random_indexes |-> IF IsError(early) THEN <<>> ELSE rand_idx,
         out |-> out]

\* ------------------------------------------------------------- summarizers
NA == [k |-> "N/A"]

\* Variant: an empty category reported as 0.
handle_zero_case_as_zero(category_results) ==
    IF Len(category_results) = 0 THEN Num(0, 1) ELSE mean(category_results)

handle_zero_case(category_results) ==
    IF Len(category_results) = 0 THEN NA ELSE mean(category_results)

\* [results[i] for i in idx]
Select(results, idx) == [n \in 1..Len(idx) |-> results[idx[n]]]

\* [result['cosine_similarities'][a] - result['cosine_similarities'][b] for result in results]
CosineDelta(results, a, b) ==
    [i \in 1..Len(results) |->
        RSub(results[i].cosine_similarities[a], results[i].cosine_similarities[b])]

\* [result['cosine_similarities'][a] for result in results]
CosineColumn(results, a) ==
    [i \in 1..Len(results) |-> results[i].cosine_similarities[a]]

KeyLitToLit == "Average COSINE SIM- literal to literal"
KeyFigToLit == "Average COSINE SIM- figurative to literal"
KeyFigToFig == "Average COSINE SIM- figurative to figurative"
KeyFigToPara == "Average COSINE SIM- figurative to paraphrase"
KeyLitToPara == "Average COSINE SIM- literal to paraphrase"
KeyLitAdvantage == "COSINE SIM avg improvement - lit_to_lit_improvement_over_fig_to_lit"
KeyParaAdvantage ==
    "COSINE SIM avg improvement - fig_to_paraphrase_improvement_over_lit_to_paraphrase"
KeyFigAdvantage == "COSINE SIM ave improvement- fig_to_fig_improvement_over_lit_to_lit"

\* Variant: the operands in the order of eud_literal_sim_advantage (line 389).
cosine_literal_sim_advantage_swapped(results) ==
    CosineDelta(results, "fig_to_literal", "literal_to_literal")

cosine_literal_sim_advantage(results) ==
    CosineDelta(results, "literal_to_literal", "fig_to_literal")
cosine_fig_to_paraphrase_advantage(results) ==
    CosineDelta(results, "fig_to_paraphrase", "literal_to_paraphrase")

\* Variant: only the groups whose two values differ contribute a difference.
cosine_fig_to_fig_advantage_nonzero(results) ==
    CosineDelta(Select(results,
                       FilterIdx([i \in 1..Len(results) |->
                                    results[i].cosine_similarities["fig_to_fig"]
                                      # results[i].cosine_similarities["literal_to_literal"]],
                                 1)),
                "fig_to_fig", "literal_to_literal")

cosine_fig_to_fig_advantage(results) ==
    CosineDelta(results, "fig_to_fig", "literal_to_literal")

\* A variant with a sixth average, over the groups that have fig_to_random.
summarize_word_similarity_comp_with_random(results) ==
    (KeyLitToLit :> handle_zero_case(CosineColumn(results, "literal_to_literal")))
    @@ (KeyFigToLit :> handle_zero_case(CosineColumn(results, "fig_to_literal")))
    @@ (KeyFigToFig :> handle_zero_case(CosineColumn(results, "fig_to_fig")))
    @@ (KeyFigToPara :> handle_zero_case(CosineColumn(results, "fig_to_paraphrase")))
    @@ (KeyLitToPara :> handle_zero_case(CosineColumn(results, "literal_to_paraphrase")))
    @@ (KeyLitAdvantage :> handle_zero_case(cosine_literal_sim_advantage(results)))
    @@ (KeyParaAdvantage :> handle_zero_case(cosine_fig_to_paraphrase_advantage(results)))
    @@ (KeyFigAdvantage :> handle_zero_case(cosine_fig_to_fig_advantage(results)))
    @@ ("Average COSINE SIM- figurative to random" :>
          handle_zero_case(CosineColumn(
              Select(results,
                     FilterIdx([i \in 1..Len(results) |->
                                  "fig_to_random" \in DOMAIN results[i].cosine_similarities],
                               1)),
              "fig_to_random")))

summarize_word_similarity_comp(results) ==
    (KeyLitToLit :> handle_zero_case(CosineColumn(results, "literal_to_literal")))
    @@ (KeyFigToLit :> handle_zero_case(CosineColumn(results, "fig_to_literal")))
    @@ (KeyFigToFig :> handle_zero_case(CosineColumn(results, "fig_to_fig")))
    @@ (KeyFigToPara :> handle_zero_case(CosineColumn(results, "fig_to_paraphrase")))
    @@ (KeyLitToPara :> handle_zero_case(CosineColumn(results, "literal_to_paraphrase")))
    @@ (KeyLitAdvantage :> handle_zero_case(cosine_literal_sim_advantage(results)))
    @@ (KeyParaAdvantage :> handle_zero_case(cosine_fig_to_paraphrase_advantage(results)))
    @@ (KeyFigAdvantage :> handle_zero_case(cosine_fig_to_fig_advantage(results)))

\* calculate_paraphrase_pair_similarity (the joined sentence texts left out).
calculate_paraphrase_pair_similarity(idx, classifier_out, embeddings) ==
    [pair_index |-> idx,
     paraphrase |-> classifier_out.label,
     judgment |-> classifier_out.classifier_judgment,
     cosine_similarity |-> RSub(Num(1, 1), cosine(embeddings[idx][1], embeddings[idx][2]))]

calculate_sent_cosine_metrics(data, embeddings) ==
    [i \in 1..Len(data) |-> calculate_paraphrase_pair_similarity(i, data[i], embeddings)]

\* [result['cosine_similarity'] for result in results if test(result)], given test
CosineWhere(results, tests) ==
    LET idxs == FilterIdx(tests, 1)
    IN  [i \in 1..Len(idxs) |-> results[idxs[i]].cosine_similarity]

correctly_judged_paraphrases(results) ==
    CosineWhere(results, [i \in 1..Len(results) |-> results[i].paraphrase /\ results[i].judgment])
correctly_judged_non_paraphrases(results) ==
    CosineWhere(results, [i \in 1..Len(results) |-> ~results[i].paraphrase /\ ~results[i].judgment])
incorrectly_judged_paraphrases(results) ==
    CosineWhere(results, [i \in 1..Len(results) |-> results[i].paraphrase /\ ~results[i].judgment])
incorrectly_judged_non_paraphrases(results) ==
    CosineWhere(results, [i \in 1..Len(results) |-> ~results[i].paraphrase /\ results[i].judgment])
paraphrases(results) ==
    CosineWhere(results, [i \in 1..Len(results) |-> results[i].paraphrase])
\* Variant: the label-only partition selected by the judgment.
non_paraphrases_by_judgment(results) ==
    CosineWhere(results, [i \in 1..Len(results) |-> ~results[i].judgment])

non_paraphrases(results) ==
    CosineWhere(results, [i \in 1..Len(results) |-> ~results[i].paraphrase])

summarize_sentence_similarity_comp(results) ==
    [average_cosine_sim_for_correctly_judged_paraphrases |->
        handle_zero_case(correctly_judged_paraphrases(results)),
     average_cosine_sim_for_correctly_judged_non_paraphrases |->
        handle_zero_case(correctly_judged_non_paraphrases(results)),
     average_cosine_sim_for_incorrectly_judged_paraphrases |->
        handle_zero_case(incorrectly_judged_paraphrases(results)),
     average_cosine_sim_for_incorrectly_judged_non_paraphrases |->
        handle_zero_case(incorrectly_judged_non_paraphrases(results)),
     average_cosine_for_paraphrases |-> handle_zero_case(paraphrases(results)),
     average_cosine_for_non_paraphrases |-> handle_zero_case(non_paraphrases(results))]

\* ------------------------------------------------------------ visualization
NoCalc == [out |-> NoError]
OkDone == [k |-> "ok"]

\* One iteration of the loop of PCA_comparisions; random_id is the outcome of
\* random.choice at line 520. generate_PCS is taken to save the image it is
\* asked for. The record holds the images saved before any exception.
PCA_iteration(idiom_sent_index_group, data, random_id) ==
    LET idiom_r == WordEmbeddings(data, idiom_sent_index_group)
        pair_id == data[idiom_sent_index_group[1]].pair_id
        idiom_word == data[idiom_sent_index_group[1]].word[1]
        lit_idx == FilterIdx([i \in 1..Len(data) |->
                                data[i].pair_id = pair_id /\ data[i].word[1] = idiom_word
                                  /\ ~data[i].figurative], 1)
        para_idx == FilterIdx([i \in 1..Len(data) |->
                                 data[i].pair_id = pair_id
                                   /\ ~(data[i].word[1] = idiom_word)], 1)
        early == FirstError(idiom_r \o WordEmbeddings(data, lit_idx)
                              \o WordEmbeddings(data, para_idx))
        pword == paraphrase_word(data, para_idx)
        random_word_sents ==
            FilterIdx([i \in 1..Len(data) |-> data[i].pair_id = random_id], 1)
        rand_err == FirstError(WordEmbeddings(data, random_word_sents))
        first_two == {<<pair_id, "fig_lit">>, <<pair_id, "fig_lit_para">>}
        word_sim_calculations ==
            calculate_word_similarity_metrics(idiom_sent_index_group, data,
                                              Some(random_word_sents), random_id)
        before_draw == IsError(early) \/ IsError(pword)
        before_third == before_draw \/ IsError(rand_err) \/ random_word_sents = <<>>
    IN  [group |-> idiom_sent_index_group,
         pair_id |-> pair_id,
         drew |-> ~before_draw,
         random_id |-> IF before_draw THEN 0 ELSE random_id,
         random_word_sents |-> IF before_draw THEN <<>> ELSE random_word_sents,
         images |-> IF before_draw THEN {}
                    ELSE IF before_third THEN first_two
                    ELSE first_two \cup {<<pair_id, "fig_lit_para_rand">>},
         word_sim_calculations |-> IF before_third THEN NoCalc ELSE word_sim_calculations,
         out |-> IF IsError(early) THEN early
                 ELSE IF IsError(pword) THEN pword
                 ELSE IF IsError(rand_err) THEN rand_err
                 ELSE IF random_word_sents = <<>> THEN IndexError
                 ELSE IF IsError(word_sim_calculations.out) THEN word_sim_calculations.out
                 ELSE OkDone]

\* ------------------------------------------------------------------ state
VARIABLES
    pc,                        \* where the run stands
    comparison_type,           \* input_args.comparison_type
    data,                      \* dataset.get_data()
    sentence_embeddings,       \* get_sentence_embeddings(...), sentence mode
    idiom_sentence_indexes,    \* get_idiom_sentences(data)
    word_sim_results,          \* the list calculate_word_cosine_metrics builds
    calcs,                     \* the calculate_word_similarity_metrics calls of line 190
    paraphrase_cosine_metrics, \* calculate_sent_cosine_metrics(...)
    summary,                   \* `avergages` / the sentence summary
    error,                     \* the exception that ended the run, if any
    written,                   \* output_file has written the results file
    pca_runs,                  \* the iterations of PCA_comparisions so far
    images,                    \* the PCA images saved
    dist_call                  \* one call of calculate_dist_averages

vars ==
    <<pc, comparison_type, data, sentence_embeddings, idiom_sentence_indexes,
      word_sim_results, calcs, paraphrase_cosine_metrics, summary, error, written,
      pca_runs, images, dist_call>>

words == "words"
paraphrase_sent_pairs == "para_pairs"

NoSummary == <<>>
NoDistCall == [result |-> NoError]

\* Sentence-pair examples and their two sentence vectors.
PairExamples == [label : BOOLEAN, classifier_judgment : BOOLEAN]
PairEmbeddings == {<<1, 2>>, <<1, -1>>}

Idle ==
    /\ idiom_sentence_indexes = <<>>
    /\ word_sim_results = <<>>
    /\ calcs = <<>>
    /\ paraphrase_cosine_metrics = <<>>
    /\ summary = NoSummary
    /\ error = NoError
    /\ written = FALSE
    /\ pca_runs = <<>>
    /\ images = {}

InitWords ==
    /\ pc = "start"
    /\ comparison_type = words
    /\ data \in Datasets
    /\ sentence_embeddings = <<>>
    /\ dist_call = NoDistCall
    /\ Idle

InitPairs ==
    /\ pc = "start"
    /\ comparison_type = paraphrase_sent_pairs
    /\ \E n \in 0..MaxPairs :
         /\ data \in [1..n -> PairExamples]
         /\ sentence_embeddings \in [1..n -> PairEmbeddings]
    /\ dist_call = NoDistCall
    /\ Idle

Init == InitWords \/ InitPairs

\* ------------------------------------------------------------ word mode
\* word_usage_comparisons, line 69: group the figurative examples.
GetIdiomSentences ==
    /\ pc = "start"
    /\ comparison_type = words
    /\ \E order \in Orders(IdiomPairIds(data)) :
         idiom_sentence_indexes' = get_idiom_sentences(data, order)
    /\ pc' = IF idiom_sentence_indexes' = <<>> THEN "summarize" ELSE "metrics"
    /\ UNCHANGED <<comparison_type, data, sentence_embeddings, word_sim_results, calcs,
                   paraphrase_cosine_metrics, summary, error, written, pca_runs, images,
                   dist_call>>

\* A variant that leaves a failing group out and goes on with the next one.
CalcWordGroup_skip_and_continue ==
    /\ pc = "metrics"
    /\ \E random_id \in SentinelIds :
         calcs' = Append(calcs, calculate_word_similarity_metrics(
                     idiom_sentence_indexes[Len(calcs) + 1], data, None, random_id))
    /\ word_sim_results' = IF IsError(calcs'[Len(calcs')].out)
                           THEN word_sim_results
                           ELSE Append(word_sim_results, calcs'[Len(calcs')].out)
    /\ pc' = IF Len(calcs') = Len(idiom_sentence_indexes) THEN "summarize" ELSE "metrics"
    /\ UNCHANGED <<comparison_type, data, sentence_embeddings, idiom_sentence_indexes,
                   paraphrase_cosine_metrics, summary, error, written, pca_runs, images,
                   dist_call>>

\* calculate_word_cosine_metrics: one iteration of its list comprehension.
\* An exception in any group leaves the comprehension and ends the run.
CalcWordGroup ==
    /\ pc = "metrics"
    /\ \E random_id \in SentinelIds :
         calcs' = Append(calcs, calculate_word_similarity_metrics(
                     idiom_sentence_indexes[Len(word_sim_results) + 1], data, None, random_id))
    /\ IF IsError(calcs'[Len(calcs')].out)
       THEN /\ error' = calcs'[Len(calcs')].out
            /\ pc' = "aborted"
            /\ UNCHANGED word_sim_results
       ELSE /\ word_sim_results' = Append(word_sim_results, calcs'[Len(calcs')].out)
            /\ pc' = IF Len(word_sim_results') = Len(idiom_sentence_indexes)
                     THEN "summarize" ELSE "metrics"
            /\ UNCHANGED error
    /\ UNCHANGED <<comparison_type, data, sentence_embeddings, idiom_sentence_indexes,
                   paraphrase_cosine_metrics, summary, written, pca_runs, images, dist_call>>

\* word_usage_comparisons, line 72.
SummarizeWord ==
    /\ pc = "summarize"
    /\ comparison_type = words
    /\ summary' = summarize_word_similarity_comp(word_sim_results)
    /\ pc' = "output"
    /\ UNCHANGED <<comparison_type, data, sentence_embeddings, idiom_sentence_indexes,
                   word_sim_results, calcs, paraphrase_cosine_metrics, error, written,
                   pca_runs, images, dist_call>>

\* ------------------------------------------------------- sentence mode
\* sentence_paraphrase_comparisons, line 44.
CalcSentMetrics ==
    /\ pc = "start"
    /\ comparison_type = paraphrase_sent_pairs
    /\ paraphrase_cosine_metrics' = calculate_sent_cosine_metrics(data, sentence_embeddings)
    /\ pc' = "summarize"
    /\ UNCHANGED <<comparison_type, data, sentence_embeddings, idiom_sentence_indexes,
                   word_sim_results, calcs, summary, error, written, pca_runs, images,
                   dist_call>>

\* sentence_paraphrase_comparisons, line 45.
SummarizeSentence ==
    /\ pc = "summarize"
    /\ comparison_type = paraphrase_sent_pairs
    /\ summary' = summarize_sentence_similarity_comp(paraphrase_cosine_metrics)
    /\ pc' = "output"
    /\ UNCHANGED <<comparison_type, data, sentence_embeddings, idiom_sentence_indexes,
                   word_sim_results, calcs, paraphrase_cosine_metrics, error, written,
                   pca_runs, images, dist_call>>

\* output_file: the results file of either mode.
OutputFile ==
    /\ pc = "output"
    /\ written' = TRUE
    /\ pc' = IF comparison_type = words /\ idiom_sentence_indexes # <<>>
             THEN "pca" ELSE "done"
    /\ UNCHANGED <<comparison_type, data, sentence_embeddings, idiom_sentence_indexes,
                   word_sim_results, calcs, paraphrase_cosine_metrics, summary, error,
                   pca_runs, images, dist_call>>

\* A variant whose printed metrics come from a call that is given no random
\* index set and so draws a sentinel id of its own.
PCAGroup_third_draw ==
    /\ pc = "pca"
    /\ \E random_id, third_id \in SentinelIds :
         LET group == idiom_sentence_indexes[Len(pca_runs) + 1]
             run == PCA_iteration(group, data, random_id)
         IN  pca_runs' = Append(pca_runs,
                 IF run.word_sim_calculations = NoCalc THEN run
                 ELSE [run EXCEPT !.word_sim_calculations =
                          calculate_word_similarity_metrics(group, data, None, third_id)])
    /\ images' = images \cup pca_runs'[Len(pca_runs')].images
    /\ IF IsError(pca_runs'[Len(pca_runs')].out)
       THEN /\ error' = pca_runs'[Len(pca_runs')].out
            /\ pc' = "aborted"
       ELSE /\ pc' = IF Len(pca_runs') = Len(idiom_sentence_indexes)
                     THEN "done" ELSE "pca"
            /\ UNCHANGED error
    /\ UNCHANGED <<comparison_type, data, sentence_embeddings, idiom_sentence_indexes,
                   word_sim_results, calcs, paraphrase_cosine_metrics, summary, written,
                   dist_call>>

\* PCA_comparisions: one iteration of its loop over the groups.
PCAGroup ==
    /\ pc = "pca"
    /\ \E random_id \in SentinelIds :
         pca_runs' = Append(pca_runs, PCA_iteration(
                        idiom_sentence_indexes[Len(pca_runs) + 1], data, random_id))
    /\ images' = images \cup pca_runs'[Len(pca_runs')].images
    /\ IF IsError(pca_runs'[Len(pca_runs')].out)
       THEN /\ error' = pca_runs'[Len(pca_runs')].out
            /\ pc' = "aborted"
       ELSE /\ pc' = IF Len(pca_runs') = Len(idiom_sentence_indexes)
                     THEN "done" ELSE "pca"
            /\ UNCHANGED error
    /\ UNCHANGED <<comparison_type, data, sentence_embeddings, idiom_sentence_indexes,
                   word_sim_results, calcs, paraphrase_cosine_metrics, summary, written,
                   dist_call>>

Next ==
    \/ GetIdiomSentences
    \/ CalcWordGroup
    \/ SummarizeWord
    \/ CalcSentMetrics
    \/ SummarizeSentence
    \/ OutputFile
    \/ PCAGroup

Spec == Init /\ [][Next]_vars

\* ------------------------------------- calculate_dist_averages on its own
EmbValues == {-1, 1, 2}
EmbLists == UNION {[1..n -> EmbValues] : n \in 0..MaxEmb}

InitDist ==
    /\ pc = "dist"
    /\ comparison_type = words
    /\ data = <<>>
    /\ sentence_embeddings = <<>>
    /\ Idle
    /\ \E m \in {<<"cosine", TRUE>>, <<"euclidean", FALSE>>}, e1 \in EmbLists,
          e2 \in {None} \cup {Some(e) : e \in EmbLists} :
         dist_call = [measurement |-> m[1], inverse |-> m[2], embeddings_1 |-> e1,
                      embeddings_2 |-> e2, embedding_pairs |-> <<>>, result |-> NoError]

CallDistAverages ==
    /\ pc = "dist"
    /\ dist_call' = [dist_call EXCEPT
                        !.embedding_pairs =
                            embedding_pairs(dist_call.embeddings_1, dist_call.embeddings_2),
                        !.result =
                            calculate_dist_averages(dist_call.measurement, dist_call.inverse,
                                                    dist_call.embeddings_1,
                                                    dist_call.embeddings_2)]
    /\ pc' = "dist_done"
    /\ UNCHANGED <<comparison_type, data, sentence_embeddings, idiom_sentence_indexes,
                   word_sim_results, calcs, paraphrase_cosine_metrics, summary, error,
                   written, pca_runs, images>>

NextDist == CallDistAverages

SpecDist == InitDist /\ [][NextDist]_vars

\* -------------------------------- summarize_word_similarity_comp on its own
\* Per-group results as calculate_word_similarity_metrics returns them, one
\* for each choice of the group's four embedding lists.
GroupResults ==
    {[k |-> "dict", pair_id |-> 1, word |-> <<"spill">>, paraphrase_word |-> <<"reveal">>,
      cosine_similarities |-> calculate_word_cosine_sim_metrics(i, l, p, Some(r)).d,
      euclidean_distances |-> calculate_word_euclidean_dists(i, l, p, Some(r)).d] :
        i \in {<<1, 1>>, <<1, 1, -1>>}, l \in {<<1, -1>>, <<1, 2, -1>>},
        p \in {<<1>>, <<1, -1>>}, r \in {<<>>, <<-1>>}}

InitSummary ==
    /\ pc = "summarize"
    /\ comparison_type = words
    /\ data = <<>>
    /\ sentence_embeddings = <<>>
    /\ idiom_sentence_indexes = <<>>
    /\ word_sim_results \in UNION {[1..n -> GroupResults] : n \in 0..MaxResults}
    /\ calcs = <<>>
    /\ paraphrase_cosine_metrics = <<>>
    /\ summary = NoSummary
    /\ error = NoError
    /\ written = FALSE
    /\ pca_runs = <<>>
    /\ images = {}
    /\ dist_call = NoDistCall

NextSummary == SummarizeWord

SpecSummary == InitSummary /\ [][NextSummary]_vars

\* ================================================================= claims
\* v is the arithmetic mean of the non-empty list xs of rationals.
IsMeanOf(v, xs) ==
    /\ Len(xs) > 0
    /\ v.k = "num"
    /\ v.n * RSum(xs).d * Len(xs) = RSum(xs).n * v.d

\* The per-group differences a - b of the cosine similarities of `results`.
GroupDifferences(results, a, b) ==
    [i \in 1..Len(results) |->
        Num(results[i].cosine_similarities[a].n * results[i].cosine_similarities[b].d
              - results[i].cosine_similarities[b].n * results[i].cosine_similarities[a].d,
            results[i].cosine_similarities[a].d * results[i].cosine_similarities[b].d)]

\* C1: for a non-empty list of per-group results, each of the three cosine
\* advantage values of the word summary is the arithmetic mean over the groups
\* of the per-group difference (literal_to_literal - fig_to_literal,
\* fig_to_paraphrase - literal_to_paraphrase, fig_to_fig - literal_to_literal),
\* with exactly one difference term per group.
C1_AdvantageIsMeanOfDifferences ==
    (pc = "output" /\ comparison_type = words /\ word_sim_results # <<>>) =>
        /\ IsMeanOf(summary[KeyLitAdvantage],
                    GroupDifferences(word_sim_results, "literal_to_literal", "fig_to_literal"))
        /\ IsMeanOf(summary[KeyParaAdvantage],
                    GroupDifferences(word_sim_results, "fig_to_paraphrase",
                                     "literal_to_paraphrase"))
        /\ IsMeanOf(summary[KeyFigAdvantage],
                    GroupDifferences(word_sim_results, "fig_to_fig", "literal_to_literal"))
        /\ Len(cosine_literal_sim_advantage(word_sim_results)) = Len(word_sim_results)
        /\ Len(cosine_fig_to_paraphrase_advantage(word_sim_results)) = Len(word_sim_results)
        /\ Len(cosine_fig_to_fig_advantage(word_sim_results)) = Len(word_sim_results)

\* Three groups with three different literal advantages have been summarized.
C1_Witness ==
    /\ pc = "output"
    /\ comparison_type = words
    /\ Len(word_sim_results) = 3
    /\ LET d == GroupDifferences(word_sim_results, "literal_to_literal", "fig_to_literal")
       IN  d[1] # d[2] /\ d[2] # d[3] /\ d[1] # d[3]
    /\ summary[KeyLitAdvantage].k = "num"
    /\ summary[KeyLitAdvantage].d > 1

\* C2 (as claimed): with a second set given, of any size, the pairs averaged
\* are the full cross product, |a|*|b| of them; with the second set omitted
\* they are the pairs of distinct positions of the first set, |a| choose 2.
C2_PairsAsClaimed ==
    pc = "dist_done" =>
        LET a == dist_call.embeddings_1
            pairs == dist_call.embedding_pairs
        IN  IF dist_call.embeddings_2 # None
            THEN LET b == dist_call.embeddings_2[1]
                 IN  /\ Len(pairs) = Len(a) * Len(b)
                     /\ \A i \in 1..Len(a), j \in 1..Len(b) :
                          pairs[(i - 1) * Len(b) + j] = <<a[i], b[j]>>
            ELSE /\ Len(pairs) * 2 = Len(a) * (Len(a) - 1)
                 /\ \A i, j \in 1..Len(a) :
                      i < j => \E n \in 1..Len(pairs) : pairs[n] = <<a[i], a[j]>>

\* C3: the groups of get_idiom_sentences partition the figurative examples by
\* pair_id: only figurative indices, one pair_id per group, one non-empty
\* group per pair_id of a figurative example, each figurative index in exactly
\* one group exactly once.
C3_GroupsPartitionFigurative ==
    (comparison_type = words /\ pc # "start") =>
        LET groups == idiom_sentence_indexes
            figs == {i \in 1..Len(data) : data[i].figurative}
            Slots == {gk \in (1..Len(groups)) \X (1..Len(data)) : gk[2] <= Len(groups[gk[1]])}
        IN  /\ \A gk \in Slots : groups[gk[1]][gk[2]] \in figs
            /\ \A gk \in Slots :
                 data[groups[gk[1]][gk[2]]].pair_id = data[groups[gk[1]][1]].pair_id
            /\ \A g \in 1..Len(groups) : groups[g] # <<>>
            /\ \A g, h \in 1..Len(groups) :
                 g # h => data[groups[g][1]].pair_id # data[groups[h][1]].pair_id
            /\ Len(groups) = Cardinality({data[i].pair_id : i \in figs})
            /\ \A i \in figs : Cardinality({gk \in Slots : groups[gk[1]][gk[2]] = i}) = 1

\* Two groups, one of them with two members, beside non-figurative examples.
C3_Witness ==
    /\ comparison_type = words
    /\ pc # "start"
    /\ Len(idiom_sentence_indexes) >= 2
    /\ \E g \in 1..Len(idiom_sentence_indexes) : Len(idiom_sentence_indexes[g]) >= 2
    /\ \E i \in 1..Len(data) : ~data[i].figurative

\* Every calculate_word_similarity_metrics call the run has made: those of
\* the metric computation and those of the visualization.
AllCalcs ==
    {calcs[i] : i \in 1..Len(calcs)}
    \cup {pca_runs[i].word_sim_calculations :
            i \in {j \in 1..Len(pca_runs) : pca_runs[j].word_sim_calculations # NoCalc}}

FiveKeys ==
    {"fig_to_literal", "literal_to_literal", "fig_to_fig", "fig_to_paraphrase",
     "literal_to_paraphrase"}

\* C4: for a group whose metric computation completes, the cosine and the
\* Euclidean mapping hold the five category keys, and fig_to_random exactly
\* when the random set used is non-empty; when the call drew its own random
\* set, fig_to_random is present only if some example has a sentinel pair id.
C4_MetricKeys ==
    \A c \in AllCalcs :
        c.out.k = "dict" =>
            LET want == FiveKeys \cup (IF c.random_indexes # <<>> THEN {"fig_to_random"}
                                       ELSE {})
                sentinel == \E i \in 1..Len(data) : data[i].pair_id \in SentinelIds
            IN  /\ DOMAIN c.out.cosine_similarities = want
                /\ DOMAIN c.out.euclidean_distances = want
                /\ (c.drew /\ "fig_to_random" \in DOMAIN c.out.cosine_similarities) => sentinel
                /\ (c.drew /\ ~sentinel) =>
                      /\ "fig_to_random" \notin DOMAIN c.out.cosine_similarities
                      /\ "fig_to_random" \notin DOMAIN c.out.euclidean_distances

\* A finished run whose metric computation drew a sentinel id without examples
\* (no fig_to_random) and whose visualization drew one with examples.
C4_Witness ==
    /\ pc = "done"
    /\ comparison_type = words
    /\ Len(calcs) = 1
    /\ calcs[1].drew
    /\ "fig_to_random" \notin DOMAIN calcs[1].out.cosine_similarities
    /\ Len(pca_runs) = 1
    /\ "fig_to_random" \in DOMAIN pca_runs[1].word_sim_calculations.out.cosine_similarities

\* The summary of the run has been computed.
Summarized == pc \in {"output", "pca", "done"} \/ (pc = "aborted" /\ written)

\* The zero-case policy for one statistic v fed by the list xs.
ZeroCasePolicy(v, xs) == IF Len(xs) = 0 THEN v.k = "N/A" ELSE IsMeanOf(v, xs)

\* C5: every statistic of either summary is 'N/A' when the list feeding it is
\* empty and the arithmetic mean of that list otherwise, each of the six
\* sentence partitions being decided on its own.
C5_ZeroCasePolicy ==
    Summarized =>
        IF comparison_type = words
        THEN LET r == word_sim_results
             IN  /\ ZeroCasePolicy(summary[KeyLitToLit], CosineColumn(r, "literal_to_literal"))
                 /\ ZeroCasePolicy(summary[KeyFigToLit], CosineColumn(r, "fig_to_literal"))
                 /\ ZeroCasePolicy(summary[KeyFigToFig], CosineColumn(r, "fig_to_fig"))
                 /\ ZeroCasePolicy(summary[KeyFigToPara], CosineColumn(r, "fig_to_paraphrase"))
                 /\ ZeroCasePolicy(summary[KeyLitToPara],
                                   CosineColumn(r, "literal_to_paraphrase"))
                 /\ ZeroCasePolicy(summary[KeyLitAdvantage], cosine_literal_sim_advantage(r))
                 /\ ZeroCasePolicy(summary[KeyParaAdvantage],
                                   cosine_fig_to_paraphrase_advantage(r))
                 /\ ZeroCasePolicy(summary[KeyFigAdvantage], cosine_fig_to_fig_advantage(r))
        ELSE LET r == paraphrase_cosine_metrics
             IN  /\ ZeroCasePolicy(summary.average_cosine_sim_for_correctly_judged_paraphrases,
                                   correctly_judged_paraphrases(r))
                 /\ ZeroCasePolicy(
                        summary.average_cosine_sim_for_correctly_judged_non_paraphrases,
                        correctly_judged_non_paraphrases(r))
                 /\ ZeroCasePolicy(
                        summary.average_cosine_sim_for_incorrectly_judged_paraphrases,
                        incorrectly_judged_paraphrases(r))
                 /\ ZeroCasePolicy(
                        summary.average_cosine_sim_for_incorrectly_judged_non_paraphrases,
                        incorrectly_judged_non_paraphrases(r))
                 /\ ZeroCasePolicy(summary.average_cosine_for_paraphrases, paraphrases(r))
                 /\ ZeroCasePolicy(summary.average_cosine_for_non_paraphrases,
                                   non_paraphrases(r))

\* A sentence summary with an empty partition beside a partition whose mean
\* is not a whole number.
C5_Witness ==
    /\ pc = "done"
    /\ comparison_type = paraphrase_sent_pairs
    /\ summary.average_cosine_sim_for_correctly_judged_non_paraphrases.k = "N/A"
    /\ summary.average_cosine_for_non_paraphrases.k = "num"
    /\ summary.average_cosine_for_paraphrases.k = "num"
    /\ summary.average_cosine_for_paraphrases.d > 1

\* The cosine similarities of the results at the positions in S, ascending.
RECURSIVE SimilaritiesAt(_, _, _)
SimilaritiesAt(results, S, i) ==
    IF i > Len(results) THEN <<>>
    ELSE (IF i \in S THEN <<results[i].cosine_similarity>> ELSE <<>>)
         \o SimilaritiesAt(results, S, i + 1)

\* The positions of the examples with the given label and judgment.
Quadrant(label, judgment) ==
    {i \in 1..Len(data) :
        data[i].label = label /\ data[i].classifier_judgment = judgment}

\* C6: each pair result contributes its cosine similarity to exactly the
\* confusion quadrant of its (label, judgment), and to the label-only
\* partition of its label, which is the union of that label's two quadrants.
C6_ConfusionQuadrants ==
    (comparison_type = paraphrase_sent_pairs /\ Summarized) =>
        LET r == paraphrase_cosine_metrics
        IN  /\ correctly_judged_paraphrases(r) = SimilaritiesAt(r, Quadrant(TRUE, TRUE), 1)
            /\ correctly_judged_non_paraphrases(r)
                 = SimilaritiesAt(r, Quadrant(FALSE, FALSE), 1)
            /\ incorrectly_judged_paraphrases(r)
                 = SimilaritiesAt(r, Quadrant(TRUE, FALSE), 1)
            /\ incorrectly_judged_non_paraphrases(r)
                 = SimilaritiesAt(r, Quadrant(FALSE, TRUE), 1)
            /\ paraphrases(r)
                 = SimilaritiesAt(r, Quadrant(TRUE, TRUE) \cup Quadrant(TRUE, FALSE), 1)
            /\ non_paraphrases(r)
                 = SimilaritiesAt(r, Quadrant(FALSE, FALSE) \cup Quadrant(FALSE, TRUE), 1)
            /\ Len(correctly_judged_paraphrases(r)) + Len(correctly_judged_non_paraphrases(r))
                 + Len(incorrectly_judged_paraphrases(r))
                 + Len(incorrectly_judged_non_paraphrases(r)) = Len(r)
            /\ Len(paraphrases(r)) + Len(non_paraphrases(r)) = Len(r)
            /\ ZeroCasePolicy(summary.average_cosine_for_paraphrases,
                              SimilaritiesAt(r, Quadrant(TRUE, TRUE) \cup Quadrant(TRUE, FALSE),
                                             1))
            /\ ZeroCasePolicy(summary.average_cosine_for_non_paraphrases,
                              SimilaritiesAt(r, Quadrant(FALSE, FALSE)
                                                  \cup Quadrant(FALSE, TRUE), 1))

\* Four pairs, one in each confusion quadrant, have been summarized.
C6_Witness ==
    /\ pc = "done"
    /\ comparison_type = paraphrase_sent_pairs
    /\ Len(data) = 4
    /\ \A l, j \in BOOLEAN : Cardinality(Quadrant(l, j)) = 1
    /\ summary.average_cosine_for_paraphrases.n = 0

\* The embeddings of the examples at the positions idxs (all found).
EmbeddingsAt(idxs) == Vecs(WordEmbeddings(data, idxs))

\* The arguments (embeddings_1, embeddings_2) of the calculate_dist_averages
\* calls that the metric functions make for the call c.
DistCallsOf(c) ==
    LET idiom == EmbeddingsAt(c.group)
        lit == EmbeddingsAt(c.literal_usage_sents)
        para == EmbeddingsAt(c.paraphrase_sents)
        rand == EmbeddingsAt(c.random_indexes)
    IN  {<<idiom, Some(lit)>>, <<lit, None>>, <<idiom, None>>, <<idiom, Some(para)>>,
         <<lit, Some(para)>>}
        \cup (IF rand # <<>> THEN {<<idiom, Some(rand)>>} ELSE {})

\* C7: a calculate_dist_averages call whose pair list is empty raises and
\* returns no number, for the cosine and for the Euclidean measure; so a group
\* with fewer than two literal or fewer than two figurative examples gets no
\* metric dict, hence no literal_to_literal or fig_to_fig value.
C7_EmptyPairListRaises ==
    \A c \in AllCalcs :
        /\ c.out.k \in {"dict", "StatisticsError"} =>
             \A args \in DistCallsOf(c) :
                 embedding_pairs(args[1], args[2]) = <<>> =>
                     /\ calculate_dist_averages("cosine", TRUE, args[1], args[2]).k
                          = "StatisticsError"
                     /\ calculate_dist_averages("euclidean", FALSE, args[1], args[2]).k
                          = "StatisticsError"
        /\ (Len(c.literal_usage_sents) < 2 \/ Len(c.group) < 2) => c.out.k # "dict"

\* A group of one figurative example, with a paraphrase and two literal
\* usages, whose computation has raised from the mean of no data.
C7_Witness ==
    \E i \in 1..Len(calcs) :
        /\ Len(calcs[i].group) = 1
        /\ Len(calcs[i].literal_usage_sents) >= 2
        /\ calcs[i].paraphrase_sents # <<>>
        /\ calcs[i].out.k = "StatisticsError"
        /\ pc = "aborted"

\* C8 (as claimed): a group without a paraphrase example, whose word lookups
\* succeed, ends calculate_word_similarity_metrics with a checked failure that
\* says that no paraphrase was found for the group.
C8_CheckedPreconditionFailure ==
    \A i \in 1..Len(calcs) :
        (calcs[i].paraphrase_sents = <<>> /\ calcs[i].out.k # "ValueError") =>
            calcs[i].out.k = "NoParaphraseFound"

\* The positions whose word embedding the call c looks up before it draws.
LookedUp(c) ==
    {c.group[n] : n \in 1..Len(c.group)}
    \cup {c.literal_usage_sents[n] : n \in 1..Len(c.literal_usage_sents)}
    \cup {c.paraphrase_sents[n] : n \in 1..Len(c.paraphrase_sents)}

\* C9 (as claimed): get_word_embedding returns the embedding at the first
\* occurrence of the word's first sub-token, and a word whose first sub-token
\* is not among the decoded tokens ends the call with a word-not-found error.
C9_WordNotFoundError ==
    /\ \A i \in 1..Len(data) :
         (comparison_type = words /\ get_word_embedding(data, i).k = "vec") =>
            \E n \in 1..Len(data[i].decoded_tokens) :
                /\ data[i].decoded_tokens[n] = data[i].word[1]
                /\ \A m \in 1..(n - 1) : data[i].decoded_tokens[m] # data[i].word[1]
                /\ get_word_embedding(data, i).v = data[i].embedding_outputs[n]
    /\ \A i \in 1..Len(calcs) :
         (\E j \in LookedUp(calcs[i]) :
             \A n \in 1..Len(data[j].decoded_tokens) :
                 data[j].decoded_tokens[n] # data[j].word[1])
           => calcs[i].out.k = "WordNotFoundError"

\* C10 (as claimed): the members of every group all have the word of the
\* group's first member.
C10_SameWordAsClaimed ==
    (comparison_type = words /\ pc # "start") =>
        \A g \in 1..Len(idiom_sentence_indexes) :
            \A n \in 1..Len(idiom_sentence_indexes[g]) :
                data[idiom_sentence_indexes[g][n]].word
                  = data[idiom_sentence_indexes[g][1]].word

\* The figurative examples of pair id p all have one word.
OneWord(p) ==
    \A i, j \in 1..Len(data) :
        (data[i].figurative /\ data[j].figurative /\ data[i].pair_id = p
           /\ data[j].pair_id = p) => data[i].word = data[j].word

\* C10 (amended): the members of every group all have the same pair_id; they
\* all have the word of the first member whenever the figurative examples of
\* that pair_id have one word, which the grouping does not examine; and
\* calculate_word_similarity_metrics takes the first member's word.
C10_SamePairIdWordUnchecked ==
    (comparison_type = words /\ pc # "start") =>
        /\ \A g \in 1..Len(idiom_sentence_indexes) :
             LET group == idiom_sentence_indexes[g]
             IN  /\ \A n \in 1..Len(group) : data[group[n]].pair_id = data[group[1]].pair_id
                 /\ OneWord(data[group[1]].pair_id) =>
                       \A n \in 1..Len(group) : data[group[n]].word = data[group[1]].word
        /\ \A i \in 1..Len(calcs) :
             /\ calcs[i].idiom_word = data[calcs[i].group[1]].word
             /\ calcs[i].pair_id = data[calcs[i].group[1]].pair_id

\* A group of two members with one word has been used for metrics, beside a
\* second group and a non-figurative example of the first group's pair id
\* with another word.
C10_Witness ==
    /\ comparison_type = words
    /\ Len(idiom_sentence_indexes) >= 2
    /\ Len(calcs) >= 1
    /\ Len(calcs[1].group) >= 2
    /\ OneWord(calcs[1].pair_id)
    /\ \E i \in 1..Len(data) :
         /\ data[i].pair_id = calcs[1].pair_id
         /\ ~data[i].figurative
         /\ data[i].word # calcs[1].idiom_word

\* The set of the indices held by the list s.
Indexes(s) == {s[n] : n \in 1..Len(s)}

\* C11 (as claimed): in every call of calculate_word_similarity_metrics the
\* group's indices, the literal-usage indices, the paraphrase indices and the
\* random-control indices are pairwise disjoint.
C11_DisjointAsClaimed ==
    \A i \in 1..Len(calcs) :
        LET sets == <<Indexes(calcs[i].group), Indexes(calcs[i].literal_usage_sents),
                      Indexes(calcs[i].paraphrase_sents), Indexes(calcs[i].random_indexes)>>
        IN  \A a, b \in 1..4 : a # b => sets[a] \cap sets[b] = {}

\* C11 (amended): the literal-usage indices share no index with the group or
\* with the paraphrase indices; the group and the paraphrase indices share
\* exactly the group's members whose word is not the first member's word;
\* and the random-control indices of a call that draws share no index with
\* the other three sets when the group's pair_id is not the drawn sentinel,
\* while they contain all three sets when it is.
C11_DisjointUnlessMixedOrSentinel ==
    \A i \in 1..Len(calcs) :
        LET group == Indexes(calcs[i].group)
            lit == Indexes(calcs[i].literal_usage_sents)
            para == Indexes(calcs[i].paraphrase_sents)
            rand == Indexes(calcs[i].random_indexes)
        IN  /\ lit \cap group = {}
            /\ lit \cap para = {}
            /\ group \cap para = {j \in group : data[j].word # calcs[i].idiom_word}
            /\ (calcs[i].drew /\ calcs[i].pair_id # calcs[i].random_id) =>
                  rand \cap (group \cup lit \cup para) = {}
            /\ (calcs[i].drew /\ calcs[i].pair_id = calcs[i].random_id) =>
                  (group \cup lit \cup para) \subseteq rand

\* A first call whose group holds a member with another word, which is a
\* paraphrase index too, has returned its metrics, and a second call has
\* drawn the sentinel that is its own group's pair_id.
C11_Witness ==
    /\ Len(calcs) = 2
    /\ calcs[1].out.k = "dict"
    /\ Indexes(calcs[1].group) \cap Indexes(calcs[1].paraphrase_sents) # {}
    /\ Indexes(calcs[1].literal_usage_sents) # {}
    /\ calcs[2].drew
    /\ calcs[2].pair_id = calcs[2].random_id
    /\ Indexes(calcs[2].group) \cap Indexes(calcs[2].random_indexes) # {}

\* The eight keys of the word summary.
EightKeys ==
    {KeyLitToLit, KeyFigToLit, KeyFigToFig, KeyFigToPara, KeyLitToPara,
     KeyLitAdvantage, KeyParaAdvantage, KeyFigAdvantage}

\* Every group result has a fig_to_random cosine value.
AllHaveRandom(results) ==
    \A i \in 1..Len(results) : "fig_to_random" \in DOMAIN results[i].cosine_similarities

\* C12 (as claimed): the word summary holds, beside the three advantage
\* deltas and the five other category averages, a run-level average of
\* fig_to_random: an entry that is the mean over the groups of their
\* fig_to_random values when every group has one.
C12_SixCategoryAverages ==
    (pc = "output" /\ comparison_type = words /\ word_sim_results # <<>>) =>
        /\ EightKeys \subseteq DOMAIN summary
        /\ \E key \in DOMAIN summary \ EightKeys :
             AllHaveRandom(word_sim_results) =>
                IsMeanOf(summary[key], CosineColumn(word_sim_results, "fig_to_random"))

\* C12 (amended): the word summary holds exactly eight entries: the
\* run-level average of each of the five cosine categories fig_to_literal,
\* literal_to_literal, fig_to_fig, fig_to_paraphrase and
\* literal_to_paraphrase, and the three advantage deltas; it holds no
\* average of fig_to_random, whether or not the groups have that value.
C12_FiveCategoryAverages ==
    (pc = "output" /\ comparison_type = words) =>
        /\ DOMAIN summary = EightKeys
        /\ word_sim_results # <<>> =>
             /\ IsMeanOf(summary[KeyLitToLit],
                         CosineColumn(word_sim_results, "literal_to_literal"))
             /\ IsMeanOf(summary[KeyFigToLit],
                         CosineColumn(word_sim_results, "fig_to_literal"))
             /\ IsMeanOf(summary[KeyFigToFig], CosineColumn(word_sim_results, "fig_to_fig"))
             /\ IsMeanOf(summary[KeyFigToPara],
                         CosineColumn(word_sim_results, "fig_to_paraphrase"))
             /\ IsMeanOf(summary[KeyLitToPara],
                         CosineColumn(word_sim_results, "literal_to_paraphrase"))
        /\ word_sim_results = <<>> => \A key \in EightKeys : summary[key] = NA

\* Two groups that both have a fig_to_random value, with different
\* fig_to_literal values, have been summarized.
C12_Witness ==
    /\ pc = "output"
    /\ comparison_type = words
    /\ Len(word_sim_results) = 2
    /\ AllHaveRandom(word_sim_results)
    /\ word_sim_results[1].cosine_similarities["fig_to_literal"]
         # word_sim_results[2].cosine_similarities["fig_to_literal"]
    /\ summary[KeyFigToLit].k = "num"

\* The metric computation of group g of the run fails whatever sentinel id
\* it draws.
GroupFails(g) ==
    \A random_id \in SentinelIds :
        IsError(calculate_word_similarity_metrics(idiom_sentence_indexes[g], data, None,
                                                  random_id).out)

\* Nothing of the run's output exists: no summary, no results file, no PCA
\* iteration and no image.
NothingProduced ==
    /\ summary = NoSummary
    /\ written = FALSE
    /\ pca_runs = <<>>
    /\ images = {}

\* C13: in a word-mode run, a failed metric computation of a group is the
\* last one made and leaves the run aborted with that exception and with
\* nothing produced; and a run one of whose groups fails, at whatever
\* position of the group order and however many other groups succeed, never
\* leaves the metric phase other than aborted and never has a summary, a
\* written results file or a PCA visualization of any group (stated as: a
\* run that has any of these has no failing group).
C13_FailureAbortsRun ==
    comparison_type = words =>
        /\ \A i \in 1..Len(calcs) :
             IsError(calcs[i].out) =>
                /\ i = Len(calcs)
                /\ pc = "aborted"
                /\ error = calcs[i].out
                /\ Len(word_sim_results) = i - 1
                /\ NothingProduced
        /\ (pc \notin {"metrics", "aborted"} \/ ~NothingProduced) =>
                \A g \in 1..Len(idiom_sentence_indexes) : ~GroupFails(g)

\* The run has aborted on its second group after the metrics of its first
\* group were computed, and nothing has been produced.
C13_Witness ==
    /\ comparison_type = words
    /\ pc = "aborted"
    /\ Len(idiom_sentence_indexes) = 2
    /\ Len(calcs) = 2
    /\ calcs[1].out.k = "dict"
    /\ IsError(calcs[2].out)
    /\ ~GroupFails(1)
    /\ GroupFails(2)
    /\ NothingProduced

\* The indices of the examples whose pair_id is id.
UnderPairId(id) == {j \in 1..Len(data) : data[j].pair_id = id}

\* C14: in a word-mode run the metric computation of a group and the
\* visualization of the same group each make a draw of their own from
\* {799, 899, 999} and each take the examples under the id they drew as
\* their random index set, so that the two ids of one group may be equal or
\* different; while the metrics printed by a visualization come from a call
\* that makes no further draw and uses exactly the random index set drawn
\* for the visualization, which is then non-empty.
C14_IndependentDraws ==
    comparison_type = words =>
        /\ \A i \in 1..Len(calcs) :
              calcs[i].drew =>
                 /\ calcs[i].random_id \in SentinelIds
                 /\ Indexes(calcs[i].random_indexes) = UnderPairId(calcs[i].random_id)
        /\ \A i \in 1..Len(pca_runs) :
              LET run == pca_runs[i]
              IN  /\ run.group = calcs[i].group
                  /\ calcs[i].drew
                  /\ run.drew =>
                        /\ run.random_id \in SentinelIds
                        /\ Indexes(run.random_word_sents) = UnderPairId(run.random_id)
                  /\ run.word_sim_calculations # NoCalc =>
                        /\ run.drew
                        /\ run.random_word_sents # <<>>
                        /\ ~run.word_sim_calculations.drew
                        /\ run.word_sim_calculations.group = run.group
                        /\ run.word_sim_calculations.random_indexes = run.random_word_sents
                  /\ (<<run.pair_id, "fig_lit_para_rand">> \in run.images) =>
                        run.word_sim_calculations # NoCalc

\* For one group the metric computation and the visualization have drawn
\* two different sentinel ids with different random index sets, and the
\* visualization has printed metrics that hold fig_to_random while the
\* group's metrics of the results file do not.
C14_Witness ==
    /\ comparison_type = words
    /\ Len(pca_runs) >= 1
    /\ calcs[1].drew
    /\ pca_runs[1].drew
    /\ calcs[1].random_id # pca_runs[1].random_id
    /\ calcs[1].random_indexes = <<>>
    /\ pca_runs[1].random_word_sents # <<>>
    /\ pca_runs[1].word_sim_calculations # NoCalc
    /\ pca_runs[1].word_sim_calculations.out.k = "dict"
    /\ "fig_to_random" \in DOMAIN pca_runs[1].word_sim_calculations.out.cosine_similarities
    /\ "fig_to_random" \notin DOMAIN calcs[1].out.cosine_similarities

\* C15: for a non-empty list of per-group results, each advantage delta of
\* the word summary equals the difference of the two run-level averages of
\* the same summary that correspond to it: literal advantage = literal to
\* literal - figurative to literal, paraphrase advantage = figurative to
\* paraphrase - literal to paraphrase, figurative advantage = figurative to
\* figurative - literal to literal; each of the eight lists averaged has
\* one value per group.
C15_DeltaIsDifferenceOfAverages ==
    (pc = "output" /\ comparison_type = words /\ word_sim_results # <<>>) =>
        /\ \A key \in EightKeys : summary[key].k = "num"
        /\ summary[KeyLitAdvantage] = RSub(summary[KeyLitToLit], summary[KeyFigToLit])
        /\ summary[KeyParaAdvantage] = RSub(summary[KeyFigToPara], summary[KeyLitToPara])
        /\ summary[KeyFigAdvantage] = RSub(summary[KeyFigToFig], summary[KeyLitToLit])
        /\ \A a \in FiveKeys : Len(CosineColumn(word_sim_results, a)) = Len(word_sim_results)
        /\ Len(cosine_literal_sim_advantage(word_sim_results)) = Len(word_sim_results)
        /\ Len(cosine_fig_to_paraphrase_advantage(word_sim_results)) = Len(word_sim_results)
        /\ Len(cosine_fig_to_fig_advantage(word_sim_results)) = Len(word_sim_results)

\* Three groups have been summarized, one of them with equal fig_to_fig and
\* literal_to_literal values and another with different ones, and the
\* figurative advantage and the two averages it is the difference of are
\* three different non-zero numbers.
C15_Witness ==
    /\ pc = "output"
    /\ comparison_type = words
    /\ Len(word_sim_results) = 3
    /\ \E i, j \in 1..3 :
         /\ word_sim_results[i].cosine_similarities["fig_to_fig"]
              = word_sim_results[i].cosine_similarities["literal_to_literal"]
         /\ word_sim_results[j].cosine_similarities["fig_to_fig"]
              # word_sim_results[j].cosine_similarities["literal_to_literal"]
    /\ summary[KeyFigAdvantage].k = "num"
    /\ summary[KeyFigAdvantage].n # 0
    /\ summary[KeyFigToFig].n # 0
    /\ summary[KeyLitToLit].n # 0
    /\ summary[KeyFigToFig] # summary[KeyLitToLit]
    /\ summary[KeyFigAdvantage] # summary[KeyFigToFig]

====
